---- MODULE Spec2Model ----
(***************************************************************************)
(* Model of drivers/staging/android/lowmemorykiller.c: the shrinker        *)
(* callback lowmem_shrink, invoked concurrently from several contexts, the *)
(* task-free notifier task_notify_func, and their shared state             *)
(* (lowmem_deathpending, lowmem_deathpending_timeout, lowmem_lock).        *)
(***************************************************************************)
EXTENDS Integers, Sequences, FiniteSets, TLC

\* ------------------------------------------------------------ bounds
JiffyBits == 2      \* width of the jiffies counter (unsigned long in the code)
HZ == 1             \* ticks per second, scaled to the width above
MaxList == 3        \* longest process list drawn for the selection loop

\* --------------------------------------------------- program constants
LOWMEM_ADJ_SLOTS == 12
OOM_ADJUST_MAX == 15
PAGE_SIZE == 4096
NULL == 0

\* The contexts that may be inside lowmem_shrink at the same time.
Threads == {1, 2}
JiffyMod == 2 ^ JiffyBits

\* ------------------------------------------------------------- state
VARIABLES
    lowmem_adj, lowmem_adj_size,          \* module parameter "adj"
    lowmem_minfree, lowmem_minfree_size,  \* module parameter "minfree"
    lowmem_multiplier, lowmem_oldmethod,  \* module parameters
    lowmem_deathpending,                  \* NULL or the task last killed
    lowmem_deathpending_timeout,          \* jiffies value of the deadline
    lowmem_lock,                          \* NULL or the thread holding it
    jiffies,                              \* the kernel tick counter
    vmstat,                               \* the global page counters
    tasks,                                \* the process list
    notify_pc, notify_task,               \* task_notify_func in flight
    pc, loc,                              \* per thread: position, locals
    ret,                                  \* per thread: value returned
    scanned, sent, est                    \* per thread: what the call did

cfgvars == <<lowmem_adj, lowmem_adj_size, lowmem_minfree, lowmem_minfree_size,
             lowmem_multiplier, lowmem_oldmethod>>
guardvars == <<lowmem_deathpending, lowmem_deathpending_timeout>>
envvars == <<jiffies, vmstat, tasks>>
notifyvars == <<notify_pc, notify_task>>
threadvars == <<pc, loc, ret, scanned, sent, est>>
vars == <<cfgvars, guardvars, lowmem_lock, envvars, notifyvars, threadvars>>

\* The entries of the process list, in the order for_each_process walks it.
Procs == DOMAIN tasks

\* ----------------------------------------------------------- helpers
Min(a, b) == IF a < b THEN a ELSE b
Abs(x) == IF x < 0 THEN 0 - x ELSE x

\* time_before_eq(a, b): ((long)(b) - (long)(a) >= 0) on the wrapping counter.
TimeBeforeEq(a, b) == ((b - a) % JiffyMod) < JiffyMod \div 2

\* lowmem_adj[] and lowmem_minfree[] as initialised in the source.
DefaultAdj == <<0, 1, 6, 12>>
DefaultMinfree == <<3 * 512, 2 * 1024, 4 * 1024, 16 * 1024>>

\* Zero-filled to LOWMEM_ADJ_SLOTS entries, as a C static array is.
Slots(s) == [i \in 1..LOWMEM_ADJ_SLOTS |-> IF i <= Len(s) THEN s[i] ELSE 0]

\* other_free < lowmem_minfree[i]: an int compared with a size_t, so the int
\* is converted to unsigned and a negative count compares as a huge one.
ULess(a, b) == a >= 0 /\ a < b

\* global_page_state(NR_FILE_PAGES) - global_page_state(NR_SHMEM)
OtherFile(v) == v.file - v.shmem

\* The sum returned as "rem": the four LRU counters.
Reclaimable(v) ==
    v.active_anon + v.active_file + v.inactive_anon + v.inactive_file

\* The locals of lowmem_shrink as declared and initialised at its top.
InitLocals == [
    nr_to_scan |-> 0, other_free |-> 0, other_file |-> 0,
    ooms_seen |-> FALSE,
    min_adj |-> OOM_ADJUST_MAX + 1, rem |-> 0,
    selected |-> NULL, selected_tasksize |-> 0, selected_oom_adj |-> 0,
    lowmem_delta |-> (1048576 * 1024) \div PAGE_SIZE,
    p |-> 0 ]

\* The locals go out of scope at a return; what the caller passed, the
\* min_adj resolved and whether the histogram buffer is still allocated are
\* kept for inspection.
Returned(l) ==
    [InitLocals EXCEPT !.nr_to_scan = l.nr_to_scan, !.min_adj = l.min_adj,
                       !.ooms_seen = l.ooms_seen]

\* ------------------------------------------------- threshold lookup
\* array_size truncated to lowmem_adj_size alone.
ArraySize_AdjOnly == Min(LOWMEM_ADJ_SLOTS, lowmem_adj_size)

\* array_size after the two truncations of lines 119-122.
ArraySize ==
    Min(Min(LOWMEM_ADJ_SLOTS, lowmem_adj_size), lowmem_minfree_size)

\* A tier test satisfied by either counter alone.
TierMatches_Either(i, other_free, other_file) ==
    \/ ULess(other_free, lowmem_minfree[i])
    \/ ULess(other_file, lowmem_minfree[i])

\* A tier test that asks for free pages at or above the minimum.
TierMatches_FreeAbove(i, other_free, other_file) ==
    /\ ~ULess(other_free, lowmem_minfree[i])
    /\ ULess(other_file, lowmem_minfree[i])

\* The test of lines 124-125 for C index i - 1.
TierMatches(i, other_free, other_file) ==
    /\ ULess(other_free, lowmem_minfree[i])
    /\ ULess(other_file, lowmem_minfree[i])

\* The loop of lines 123-129: the first matching index from i on, 0 if none.
RECURSIVE FindTier(_, _, _)
FindTier(i, other_free, other_file) ==
    IF i > ArraySize THEN 0
    ELSE IF TierMatches(i, other_free, other_file) THEN i
    ELSE FindTier(i + 1, other_free, other_file)

\* The indices at which the loop of lines 123-129 reads lowmem_minfree, from
\* i on; lowmem_adj is read at the last of them, if that one matched.
RECURSIVE Consulted(_, _, _)
Consulted(i, other_free, other_file) ==
    IF i > ArraySize THEN {}
    ELSE IF TierMatches(i, other_free, other_file) THEN {i}
    ELSE {i} \cup Consulted(i + 1, other_free, other_file)

\* min_adj as left by lines 98 and 123-129.
MinAdj(other_free, other_file) ==
    LET i == FindTier(1, other_free, other_file)
    IN  IF i = 0 THEN OOM_ADJUST_MAX + 1 ELSE lowmem_adj[i]

\* -------------------------------------------------- victim selection
\* abs((nr_to_scan * lowmem_multiplier) - tasksize), line 181. The product
\* and difference are 32-bit unsigned and abs() takes them as a long; for
\* operands below 2^31, as all used here are, that is the plain distance.
Delta(nr_to_scan, tasksize) == Abs(nr_to_scan * lowmem_multiplier - tasksize)

\* A loop without the `continue` of lines 173-174.
Continues_NoPriorityTest(l, oom_adj, tasksize) ==
    /\ l.selected # NULL
    /\ \/ /\ lowmem_oldmethod # 0
          /\ oom_adj = l.selected_oom_adj
          /\ tasksize <= l.selected_tasksize
       \/ /\ lowmem_oldmethod = 0
          /\ oom_adj = l.selected_oom_adj
          /\ Delta(l.nr_to_scan, tasksize) > l.lowmem_delta

\* A legacy tie-break that lets an equal footprint replace the selection.
Continues_TieReplaces(l, oom_adj, tasksize) ==
    /\ l.selected # NULL
    /\ \/ oom_adj < l.selected_oom_adj
       \/ /\ lowmem_oldmethod # 0
          /\ oom_adj = l.selected_oom_adj
          /\ tasksize < l.selected_tasksize
       \/ /\ lowmem_oldmethod = 0
          /\ oom_adj = l.selected_oom_adj
          /\ Delta(l.nr_to_scan, tasksize) > l.lowmem_delta

\* The three `continue`s of lines 172-186 for an eligible candidate.
Continues(l, oom_adj, tasksize) ==
    /\ l.selected # NULL
    /\ \/ oom_adj < l.selected_oom_adj
       \/ /\ lowmem_oldmethod # 0
          /\ oom_adj = l.selected_oom_adj
          /\ tasksize <= l.selected_tasksize
       \/ /\ lowmem_oldmethod = 0
          /\ oom_adj = l.selected_oom_adj
          /\ Delta(l.nr_to_scan, tasksize) > l.lowmem_delta

\* lowmem_delta after lines 187-188, which run only with a selection
\* already made and old_method off.
NextDelta(l, tasksize) ==
    IF /\ l.selected # NULL
       /\ lowmem_oldmethod = 0
       /\ Delta(l.nr_to_scan, tasksize) <= l.lowmem_delta
    THEN Delta(l.nr_to_scan, tasksize)
    ELSE l.lowmem_delta

\* Lines 191-193 (with the delta update that precedes them).
Select(l, pid, oom_adj, tasksize) ==
    [l EXCEPT !.selected = pid,
              !.selected_tasksize = tasksize,
              !.selected_oom_adj = oom_adj,
              !.lowmem_delta = NextDelta(l, tasksize)]

\* A loop body without the footprint test of lines 170-171.
ScanTask_NoFootprintTest(l, pid) ==
    LET task == tasks[pid] IN
    IF ~task.mm \/ ~task.sig THEN l
    ELSE IF task.oom_adj < l.min_adj THEN l
    ELSE IF Continues(l, task.oom_adj, task.rss) THEN l
    ELSE Select(l, pid, task.oom_adj, task.rss)

\* One iteration of for_each_process, lines 146-207, on list entry pid.
ScanTask(l, pid) ==
    LET task == tasks[pid] IN
    IF ~task.mm \/ ~task.sig THEN l
    ELSE IF task.oom_adj < l.min_adj THEN l
    ELSE IF task.rss <= 0 THEN l
    ELSE IF Continues(l, task.oom_adj, task.rss) THEN l
    ELSE Select(l, pid, task.oom_adj, task.rss)

\* ------------------------------------------------------ lowmem_shrink
\* A guard that tests time_before instead of time_before_eq.
GuardBlocks_Strict ==
    /\ lowmem_deathpending # NULL
    /\ TimeBeforeEq(jiffies, lowmem_deathpending_timeout)
    /\ jiffies # lowmem_deathpending_timeout

\* The test of lines 115-116.
GuardBlocks ==
    /\ lowmem_deathpending # NULL
    /\ TimeBeforeEq(jiffies, lowmem_deathpending_timeout)

\* A blocked call that reports the reclaimable estimate.
BlockedReturn_Estimate == Reclaimable(vmstat)

\* The value returned at line 117.
BlockedReturn == 0

\* A test of line 138 that returns early for a query only.
EarlyReturn_QueryOnly(l, min_adj) == l.nr_to_scan <= 0

\* A test of line 138 that lets nr_to_scan = 0 through.
EarlyReturn_Strict(l, min_adj) ==
    l.nr_to_scan < 0 \/ min_adj = OOM_ADJUST_MAX + 1

\* The test of line 138.
EarlyReturn(l, min_adj) ==
    l.nr_to_scan <= 0 \/ min_adj = OOM_ADJUST_MAX + 1

\* A deadline armed without the window.
Deadline_NoWindow(now) == now % JiffyMod

\* lowmem_deathpending_timeout = jiffies + HZ, line 214.
Deadline(now) == (now + HZ) % JiffyMod

\* A kill that leaves rem as it was.
RemAfterKill_NoSubtract(l) == l.rem

\* rem -= selected_tasksize, line 216.
RemAfterKill(l) == l.rem - l.selected_tasksize

\* The values of nr_to_scan the shrinker framework passes: 0 to query.
NrToScan == {0, 10}

\* Entry, lines 91-106: the locals, the page counters, the kzalloc. The
\* buffer is taken as allocated: a failed kzalloc only skips the histogram.
Call(t) ==
    /\ pc[t] \in {"idle", "done"}
    /\ \E n \in NrToScan :
        /\ loc' = [loc EXCEPT ![t] =
                     [InitLocals EXCEPT !.nr_to_scan = n,
                                        !.other_free = vmstat.free,
                                        !.other_file = OtherFile(vmstat),
                                        !.ooms_seen = TRUE]]
    /\ pc' = [pc EXCEPT ![t] = "guard"]
    /\ ret' = [ret EXCEPT ![t] = 0]
    /\ scanned' = [scanned EXCEPT ![t] = 0]
    /\ sent' = [sent EXCEPT ![t] = NULL]
    /\ est' = [est EXCEPT ![t] = 0]
    /\ UNCHANGED <<cfgvars, guardvars, lowmem_lock, envvars, notifyvars>>

\* Lines 115-117: return 0 while a death is outstanding.
Guard(t) ==
    /\ pc[t] = "guard"
    /\ IF GuardBlocks
       THEN /\ pc' = [pc EXCEPT ![t] = "done"]
            /\ ret' = [ret EXCEPT ![t] = BlockedReturn]
            /\ loc' = [loc EXCEPT ![t] = Returned(@)]
       ELSE /\ pc' = [pc EXCEPT ![t] = "thresh"]
            /\ UNCHANGED <<ret, loc>>
    /\ UNCHANGED <<cfgvars, guardvars, lowmem_lock, envvars, notifyvars,
                   scanned, sent, est>>

\* Lines 119-143: min_adj, rem, and the early return of line 141.
Threshold(t) ==
    /\ pc[t] = "thresh"
    /\ LET l == loc[t]
           ma == MinAdj(l.other_free, l.other_file)
           rem == Reclaimable(vmstat)
       IN  /\ est' = [est EXCEPT ![t] = rem]
           /\ IF EarlyReturn(l, ma)
              THEN /\ loc' = [loc EXCEPT ![t] = Returned([@ EXCEPT !.min_adj = ma])]
                   /\ pc' = [pc EXCEPT ![t] = "done"]
                   /\ ret' = [ret EXCEPT ![t] = rem]
              ELSE /\ loc' = [loc EXCEPT ![t].min_adj = ma, ![t].rem = rem,
                                         ![t].selected_oom_adj = ma]
                   /\ pc' = [pc EXCEPT ![t] = "lock"]
                   /\ ret' = ret
    /\ UNCHANGED <<cfgvars, guardvars, lowmem_lock, envvars, notifyvars,
                   scanned, sent>>

\* An acquisition that does not wait for the lock to be free.
Lock_NoWait(t) ==
    /\ pc[t] = "lock"
    /\ lowmem_lock' = t
    /\ loc' = [loc EXCEPT ![t].p = 1]
    /\ pc' = [pc EXCEPT ![t] = "scan"]
    /\ UNCHANGED <<cfgvars, guardvars, envvars, notifyvars,
                   ret, scanned, sent, est>>

\* spin_lock(&lowmem_lock), line 145, and the start of for_each_process.
Lock(t) ==
    /\ pc[t] = "lock"
    /\ lowmem_lock = NULL
    /\ lowmem_lock' = t
    /\ loc' = [loc EXCEPT ![t].p = 1]
    /\ pc' = [pc EXCEPT ![t] = "scan"]
    /\ UNCHANGED <<cfgvars, guardvars, envvars, notifyvars,
                   ret, scanned, sent, est>>

\* One iteration of the loop of lines 146-207; after the last entry, the
\* test of line 208.
ScanStep(t) ==
    /\ pc[t] = "scan"
    /\ LET l == ScanTask(loc[t], loc[t].p)
           last == loc[t].p = Len(tasks)
       IN  /\ loc' = [loc EXCEPT ![t] =
                        [l EXCEPT !.p = IF last THEN 0 ELSE l.p + 1]]
           /\ pc' = [pc EXCEPT ![t] =
                        IF ~last THEN "scan"
                        ELSE IF l.selected # NULL THEN "kill" ELSE "unlock"]
    /\ scanned' = [scanned EXCEPT ![t] = @ + 1]
    /\ UNCHANGED <<cfgvars, guardvars, lowmem_lock, envvars, notifyvars,
                   ret, sent, est>>

\* Lines 208-217, taken when the loop left a victim selected: the guard is
\* armed, SIGKILL is sent and rem is reduced. The three writes are one step:
\* lowmem_lock is held, task_notify_func touches only lowmem_deathpending,
\* and a guard test that falls between the two stores passes or blocks
\* exactly as one that falls before or after both.
Kill(t) ==
    /\ pc[t] = "kill"
    /\ lowmem_deathpending' = loc[t].selected
    /\ lowmem_deathpending_timeout' = Deadline(jiffies)
    /\ sent' = [sent EXCEPT ![t] = loc[t].selected]
    /\ loc' = [loc EXCEPT ![t].rem = RemAfterKill(loc[t])]
    /\ pc' = [pc EXCEPT ![t] = "unlock"]
    /\ UNCHANGED <<cfgvars, lowmem_lock, envvars, notifyvars, ret, scanned, est>>

\* kfree(ooms_seen); spin_unlock(&lowmem_lock); return rem, lines 229-231.
Unlock(t) ==
    /\ pc[t] = "unlock"
    /\ loc' = [loc EXCEPT ![t] = Returned([@ EXCEPT !.ooms_seen = FALSE])]
    /\ lowmem_lock' = NULL
    /\ ret' = [ret EXCEPT ![t] = loc[t].rem]
    /\ pc' = [pc EXCEPT ![t] = "done"]
    /\ UNCHANGED <<cfgvars, guardvars, envvars, notifyvars, scanned, sent, est>>

Shrink(t) ==
    \/ Call(t) \/ Guard(t) \/ Threshold(t) \/ Lock(t) \/ ScanStep(t)
    \/ Kill(t) \/ Unlock(t)

\* --------------------------------------------------- task_notify_func
\* A task of the list exits and is freed: the task-free notifier chain
\* calls task_notify_func with it (registered at line 241).
Exit(p) ==
    /\ tasks[p].mm
    /\ notify_pc = "idle"
    /\ tasks' = [tasks EXCEPT ![p].mm = FALSE, ![p].sig = FALSE]
    /\ notify_task' = p
    /\ notify_pc' = "check"
    /\ UNCHANGED <<cfgvars, guardvars, lowmem_lock, jiffies, vmstat,
                   threadvars>>

\* A notifier that clears whichever task it is called with.
NotifyCheck_Always ==
    /\ notify_pc = "check"
    /\ notify_pc' = "clear" /\ notify_task' = notify_task
    /\ UNCHANGED <<cfgvars, guardvars, lowmem_lock, envvars, threadvars>>

\* if (task == lowmem_deathpending), line 85.
NotifyCheck ==
    /\ notify_pc = "check"
    /\ IF notify_task = lowmem_deathpending
       THEN notify_pc' = "clear" /\ notify_task' = notify_task
       ELSE notify_pc' = "idle" /\ notify_task' = NULL
    /\ UNCHANGED <<cfgvars, guardvars, lowmem_lock, envvars, threadvars>>

\* lowmem_deathpending = NULL, line 86.
NotifyClear ==
    /\ notify_pc = "clear"
    /\ lowmem_deathpending' = NULL
    /\ notify_pc' = "idle"
    /\ notify_task' = NULL
    /\ UNCHANGED <<cfgvars, lowmem_deathpending_timeout, lowmem_lock, envvars,
                   threadvars>>

\* --------------------------------------------------------- environment
\* The freed task_struct is handed to a new process of the same attributes.
Respawn(p) ==
    /\ ~tasks[p].mm
    /\ notify_task # p
    /\ tasks' = [tasks EXCEPT ![p].mm = TRUE, ![p].sig = TRUE]
    /\ UNCHANGED <<cfgvars, guardvars, lowmem_lock, jiffies, vmstat,
                   notifyvars, threadvars>>

\* The timer interrupt: jiffies wraps at its width.
Tick ==
    /\ jiffies' = (jiffies + 1) % JiffyMod
    /\ UNCHANGED <<cfgvars, guardvars, lowmem_lock, vmstat, tasks, notifyvars,
                   threadvars>>

\* The page counters lowmem_shrink reads through global_page_state.
Counters(free, file, lru) ==
    [free |-> free, file |-> file + 100, shmem |-> 100,
     active_anon |-> lru, active_file |-> 200,
     inactive_anon |-> 100, inactive_file |-> 50]

\* The memory states of the concurrent specification; the counters stay as
\* drawn for the length of a behaviour.
MemStates ==
    { Counters(1000, 1000, 700),      \* below every tier
      Counters(3000, 1000, 900),      \* below the third tier
      Counters(20000, 20000, 1500) }  \* adequate

\* ---------------------------------------------------------------- Init
Task(adj, rss) == [mm |-> TRUE, sig |-> TRUE, oom_adj |-> adj, rss |-> rss]

\* The process list of the concurrent specification.
SystemTasks == <<Task(6, 300), Task(6, 500)>>

InitThreads ==
    /\ pc = [t \in Threads |-> "idle"]
    /\ loc = [t \in Threads |-> InitLocals]
    /\ ret = [t \in Threads |-> 0]
    /\ scanned = [t \in Threads |-> 0]
    /\ sent = [t \in Threads |-> NULL]
    /\ est = [t \in Threads |-> 0]

InitGuard ==
    /\ lowmem_deathpending = NULL
    /\ lowmem_deathpending_timeout = 0
    /\ lowmem_lock = NULL
    /\ notify_pc = "idle"
    /\ notify_task = NULL

\* The guard as an earlier pass that killed the first list entry at this
\* tick left it (lines 213-214); the page counters may have changed since.
InitGuardArmed ==
    /\ lowmem_deathpending = 1
    /\ lowmem_deathpending_timeout = (0 + HZ) % JiffyMod
    /\ lowmem_lock = NULL
    /\ notify_pc = "idle"
    /\ notify_task = NULL

InitDefaultTable ==
    /\ lowmem_adj = Slots(DefaultAdj)
    /\ lowmem_adj_size = 4
    /\ lowmem_minfree = Slots(DefaultMinfree)
    /\ lowmem_minfree_size = 4

Init ==
    /\ InitDefaultTable
    /\ lowmem_multiplier = 36
    /\ lowmem_oldmethod = 0
    /\ InitGuard
    /\ jiffies = 0
    /\ vmstat \in MemStates
    /\ tasks = SystemTasks
    /\ InitThreads

Next ==
    \/ \E t \in Threads : Shrink(t)
    \/ \E p \in Procs : Exit(p)
    \/ NotifyCheck
    \/ NotifyClear
    \/ \E p \in Procs : Respawn(p)
    \/ Tick

Spec == Init /\ [][Next]_vars

\* The holder of lowmem_lock runs lines 146-231 with preemption disabled, so
\* each of its steps is taken; a caller spinning at line 145 polls the lock
\* without pause, and the lock is free for the whole of any other caller's
\* way from its return to its next spin_lock, so it is acquired.
Fairness ==
    \A t \in Threads :
        /\ WF_vars(ScanStep(t) \/ Kill(t) \/ Unlock(t))
        /\ SF_vars(Lock(t))

\* Memory below the third tier, so that every call with nr_to_scan > 0 that
\* passes the guard goes on to take the lock.
InitFair ==
    /\ InitDefaultTable
    /\ lowmem_multiplier = 36
    /\ lowmem_oldmethod = 0
    /\ InitGuard
    /\ jiffies = 0
    /\ vmstat = Counters(3000, 1000, 900)
    /\ tasks = SystemTasks
    /\ InitThreads

\* The callers, the exits and the notifier within one tick: the lock's
\* protocol does not read the clock.
NextFair ==
    \/ \E t \in Threads : Shrink(t)
    \/ \E p \in Procs : Exit(p)
    \/ NotifyCheck
    \/ NotifyClear
    \/ \E p \in Procs : Respawn(p)

SpecFair == InitFair /\ [][NextFair]_vars /\ Fairness

\* ------------------------------------------- one call, drawn inputs
\* A single context calling lowmem_shrink, with nothing else running.
NextOne == Shrink(1)

\* Process lists for the selection loop: every order of up to MaxList
\* entries drawn from these.
CandidateTasks ==
    { Task(6, 100), Task(6, 250), Task(6, 300), Task(6, 500), Task(6, 10000),
      Task(12, 50), Task(12, 300), Task(1, 400), Task(6, 0),
      [Task(6, 300) EXCEPT !.mm = FALSE],
      [Task(12, 50) EXCEPT !.sig = FALSE] }

ListsOf(S, n) == UNION { [1..k -> S] : k \in 1..n }

InitSelect ==
    /\ InitDefaultTable
    /\ lowmem_multiplier = 36
    /\ lowmem_oldmethod \in {0, 1}
    /\ InitGuard
    /\ jiffies = 0
    /\ vmstat \in { Counters(1000, 1000, 700), Counters(3000, 1000, 900) }
    /\ tasks \in ListsOf(CandidateTasks, MaxList)
    /\ InitThreads

SpecSelect == InitSelect /\ [][NextOne]_vars

\* Tier tables for the threshold lookup: the default one and one whose
\* minima are not ascending; either parameter may hold fewer entries than
\* its array does.
AdjTables == { DefaultAdj, <<6, 1, 12, 0>> }
MinfreeTables == { DefaultMinfree, <<4096, 2048, 16384, 1536>> }
PageCounts ==
    { 0, 1000, 1535, 1536, 2047, 2048, 3000, 4095, 4096, 16383, 16384, 20000 }

InitThreshold ==
    /\ \E a \in AdjTables, m \in MinfreeTables :
         /\ lowmem_adj = Slots(a)
         /\ lowmem_adj_size \in 1..Len(a)
         /\ lowmem_minfree = Slots(m)
         /\ lowmem_minfree_size \in 1..Len(m)
    /\ lowmem_multiplier = 36
    /\ lowmem_oldmethod = 0
    /\ InitGuard \/ InitGuardArmed
    /\ jiffies = 0
    /\ \E free \in PageCounts, file \in PageCounts :
         vmstat = Counters(free, file, 900)
    /\ tasks = SystemTasks
    /\ InitThreads

SpecThreshold == InitThreshold /\ [][NextOne]_vars

\* =============================================================== claims
\* "now <= deadline" stated on the wrapping counter without the macro: the
\* deadline lies fewer than half the counter's range ahead of now.
NotPast(now, deadline) ==
    \E k \in 0..(JiffyMod \div 2 - 1) : (now + k) % JiffyMod = deadline

\* A victim is pending and its deadline has not passed.
PendingWithinWindow ==
    /\ lowmem_deathpending # NULL
    /\ NotPast(jiffies, lowmem_deathpending_timeout)

\* Thread t leaves its guard test in this step.
LeavesGuard(t) == pc[t] = "guard" /\ pc'[t] # "guard"

\* C1. Debounce: a call whose guard test runs while a victim is pending and
\* the deadline has not passed returns at once: it scans nothing, selects
\* and kills nobody and leaves the pending victim and the deadline as they
\* were, whatever the page counters and nr_to_scan are.
C1_Debounce ==
    [][\A t \in Threads :
        (LeavesGuard(t) /\ PendingWithinWindow)
            => /\ pc'[t] = "done"
               /\ scanned'[t] = 0
               /\ sent'[t] = NULL
               /\ UNCHANGED guardvars]_vars

\* A call with nr_to_scan > 0 has returned from the guard while memory is
\* below every tier and a victim is pending.
C1_Witness ==
    \E t \in Threads :
        /\ pc[t] = "done"
        /\ est[t] = 0
        /\ loc[t].nr_to_scan > 0
        /\ vmstat.free = 1000
        /\ PendingWithinWindow

\* C2. Pending-victim invariant under concurrency: no call is scanning the
\* process list, or about to kill, while a victim is pending and its
\* deadline has not passed.
C2_NoPassWhilePending ==
    \A t \in Threads : pc[t] \in {"scan", "kill"} => ~PendingWithinWindow

\* ---- selection (C3-C5), under SpecSelect: the list does not change
\* while it is scanned, so "the eligible processes of the pass" is a set.
\* Thread t has left the loop and still holds its selection.
ScanEnded(t) == pc[t] \in {"kill", "unlock"}

\* List entry q passes the tests of lines 154, 164 and 170 for thread t.
Eligible(t, q) ==
    /\ tasks[q].mm /\ tasks[q].sig
    /\ tasks[q].oom_adj >= loc[t].min_adj
    /\ tasks[q].rss > 0

EligibleSet(t) == { q \in Procs : Eligible(t, q) }

\* Distance of entry q's footprint from nr_to_scan * multiplier.
Distance(t, q) ==
    LET target == loc[t].nr_to_scan * lowmem_multiplier
    IN  IF target >= tasks[q].rss THEN target - tasks[q].rss
        ELSE tasks[q].rss - target

\* C3. Priority dominance: in both modes and for every scan order the
\* selection left by a pass has the greatest oom_adj among the eligible
\* entries (none selected only if none is eligible); within the loop an
\* eligible candidate of strictly higher oom_adj always replaces the current
\* selection and one of strictly lower oom_adj never does.
C3_PriorityDominance ==
    /\ [](\A t \in Threads : ScanEnded(t) =>
            IF EligibleSet(t) = {} THEN loc[t].selected = NULL
            ELSE /\ loc[t].selected \in EligibleSet(t)
                 /\ \A q \in EligibleSet(t) :
                      tasks[q].oom_adj <= tasks[loc[t].selected].oom_adj)
    /\ [][\A t \in Threads :
            ( /\ pc[t] = "scan" /\ scanned'[t] = scanned[t] + 1
              /\ loc[t].selected # NULL
              /\ Eligible(t, loc[t].p) )
            => LET c == tasks[loc[t].p].oom_adj
                   cur == tasks[loc[t].selected].oom_adj
               IN  /\ c > cur => loc'[t].selected = loc[t].p
                   /\ c < cur => loc'[t].selected = loc[t].selected]_vars

\* In default mode a priority-12 entry of 50 pages scanned after a
\* priority-6 entry of 10000 pages is the selection.
C3_Witness ==
    \E t \in Threads :
        /\ ScanEnded(t)
        /\ lowmem_oldmethod = 0
        /\ loc[t].selected # NULL
        /\ tasks[loc[t].selected] = Task(12, 50)
        /\ \E i \in Procs : i < loc[t].selected /\ tasks[i] = Task(6, 10000)

\* C4. Default-mode closest fit: with old_method = 0, for every scan order,
\* no eligible entry of the selection's priority is closer to
\* nr_to_scan * multiplier than the selection is.
C4_ClosestFit ==
    \A t \in Threads :
        (ScanEnded(t) /\ lowmem_oldmethod = 0 /\ loc[t].selected # NULL) =>
            \A q \in EligibleSet(t) :
                tasks[q].oom_adj = tasks[loc[t].selected].oom_adj
                    => Distance(t, loc[t].selected) <= Distance(t, q)

\* The largest footprint among the eligible entries of greatest priority,
\* and the first entry that has it.
TopPriority(t) ==
    { q \in EligibleSet(t) :
        \A r \in EligibleSet(t) : tasks[r].oom_adj <= tasks[q].oom_adj }
Largest(t) ==
    { q \in TopPriority(t) :
        \A r \in TopPriority(t) : tasks[r].rss <= tasks[q].rss }
FirstOf(S) == CHOOSE q \in S : \A r \in S : q <= r

\* C5. Legacy tie-break: with old_method # 0, for every scan order, the
\* selection is the first-scanned entry of largest footprint among the
\* eligible entries of greatest priority.
C5_LegacyLargest ==
    \A t \in Threads :
        (ScanEnded(t) /\ lowmem_oldmethod # 0 /\ EligibleSet(t) # {}) =>
            loc[t].selected = FirstOf(Largest(t))

\* In legacy mode, of two priority-6 entries of 100 and 250 pages the
\* 250-page one, scanned second, is the selection.
C5_Witness ==
    \E t \in Threads :
        /\ ScanEnded(t)
        /\ lowmem_oldmethod # 0
        /\ loc[t].selected # NULL
        /\ tasks[loc[t].selected] = Task(6, 250)
        /\ \E i \in Procs : i < loc[t].selected /\ tasks[i] = Task(6, 100)

\* ---- threshold lookup (C6), under SpecThreshold
\* Thread t has run lines 119-129.
ThresholdComputed(t) ==
    \/ pc[t] \in {"lock", "scan", "kill", "unlock"}
    \/ pc[t] = "done" /\ est[t] # 0

\* The indices below both configured lengths whose minimum exceeds both the
\* free-page and the file-page count.
MatchingTiers ==
    { i \in 1..LOWMEM_ADJ_SLOTS :
        /\ i <= lowmem_adj_size /\ i <= lowmem_minfree_size
        /\ vmstat.free < lowmem_minfree[i]
        /\ OtherFile(vmstat) < lowmem_minfree[i] }

DefaultTiers ==
    /\ lowmem_adj = Slots(DefaultAdj) /\ lowmem_adj_size = 4
    /\ lowmem_minfree = Slots(DefaultMinfree) /\ lowmem_minfree_size = 4

\* C6. Threshold resolution: min_adj is lowmem_adj[i] for the lowest matching
\* index i, and OOM_ADJUST_MAX + 1 when no index matches; with the default
\* tiers, free = 3000 and file = 1000 it is 6.
C6_ThresholdResolution ==
    \A t \in Threads : ThresholdComputed(t) =>
        /\ loc[t].min_adj =
              IF MatchingTiers = {} THEN OOM_ADJUST_MAX + 1
              ELSE lowmem_adj[FirstOf(MatchingTiers)]
        /\ (DefaultTiers /\ vmstat.free = 3000 /\ OtherFile(vmstat) = 1000)
              => loc[t].min_adj = 6

\* The default tiers with free = 3000 and file = 1000 have resolved to 6.
C6_Witness ==
    \E t \in Threads :
        /\ ThresholdComputed(t)
        /\ DefaultTiers
        /\ vmstat.free = 3000 /\ OtherFile(vmstat) = 1000
        /\ loc[t].min_adj = 6

\* ---- return values and the kill (C7-C10), under Spec
\* Thread t takes a step of a call that was made with nr_to_scan <= 0.
QueryStep(t) ==
    /\ pc[t] \in {"guard", "thresh"}
    /\ loc[t].nr_to_scan <= 0
    /\ pc'[t] # pc[t]

\* What every step of a query leaves alone.
QueryFrame(t) ==
    /\ pc'[t] \in {"thresh", "done"}
    /\ scanned'[t] = 0
    /\ sent'[t] = NULL
    /\ UNCHANGED guardvars

\* C7 as claimed. Query mode: a call with nr_to_scan <= 0 never scans,
\* selects or kills, never changes the pending victim or the deadline, and
\* returns the reclaimable estimate in every state, a pending victim
\* included.
C7_QueryReturnsEstimate ==
    [][\A t \in Threads : QueryStep(t) =>
        /\ QueryFrame(t)
        /\ pc'[t] = "done" => ret'[t] = Reclaimable(vmstat)]_vars

\* C7 as amended. Query mode: a call with nr_to_scan <= 0 never scans,
\* selects or kills and never changes the pending victim or the deadline; it
\* returns 0 when its guard test finds a victim pending with the deadline
\* not passed, and the reclaimable estimate otherwise, so repeated calls
\* with the counters and the guard's answer unchanged return the same value.
C7_QueryAmended ==
    [][\A t \in Threads : QueryStep(t) =>
        /\ QueryFrame(t)
        /\ pc[t] = "guard" =>
              IF PendingWithinWindow
              THEN pc'[t] = "done" /\ ret'[t] = 0
              ELSE pc'[t] = "thresh"
        /\ pc[t] = "thresh" =>
              pc'[t] = "done" /\ ret'[t] = Reclaimable(vmstat)]_vars

\* A query has returned 0 with a victim pending.
C7_Witness ==
    \E t \in Threads :
        /\ pc[t] = "done"
        /\ loc[t].nr_to_scan <= 0
        /\ ret[t] = 0
        /\ lowmem_deathpending # NULL

\* C8 as claimed. A call blocked by the guard returns the reclaimable
\* estimate, the value an unblocked call that kills nobody returns for the
\* same counters.
C8_BlockedReturnsEstimate ==
    [][\A t \in Threads :
        (LeavesGuard(t) /\ PendingWithinWindow)
            => ret'[t] = Reclaimable(vmstat)]_vars

\* C8 as amended. A call blocked by the guard returns 0, whatever the
\* counters are; no other value or error code reaches the caller.
C8_BlockedReturnsZero ==
    [][\A t \in Threads :
        (LeavesGuard(t) /\ PendingWithinWindow)
            => pc'[t] = "done" /\ ret'[t] = 0]_vars

\* A call has returned 0 from the guard although the estimate is not 0.
C8_Witness ==
    \E t \in Threads :
        /\ pc[t] = "done"
        /\ est[t] = 0
        /\ ret[t] = 0
        /\ Reclaimable(vmstat) > 0
        /\ PendingWithinWindow

\* Thread t takes a step of the call it is in.
CallStep(t) ==
    /\ pc[t] \notin {"idle", "done"}
    /\ pc'[t] # pc[t] \/ loc'[t] # loc[t]

\* C9. Kill and arming are coupled: a call sends at most one SIGKILL; it
\* sends one exactly when its loop ended with a selection, and the step that
\* sends it records that victim as lowmem_deathpending with the deadline
\* jiffies + HZ; every other step of a call leaves both unchanged.
C9_KillArmsGuard ==
    /\ [](\A t \in Threads :
            /\ pc[t] \in {"guard", "thresh", "lock", "scan"} => sent[t] = NULL
            /\ pc[t] = "kill" => loc[t].selected # NULL /\ sent[t] = NULL
            /\ pc[t] = "unlock" => sent[t] = loc[t].selected)
    /\ [][\A t \in Threads : CallStep(t) =>
            IF sent'[t] # sent[t]
            THEN /\ sent[t] = NULL
                 /\ sent'[t] = loc[t].selected
                 /\ lowmem_deathpending' = sent'[t]
                 /\ lowmem_deathpending_timeout' = (jiffies + HZ) % JiffyMod
            ELSE UNCHANGED guardvars]_vars

\* A call has just killed: its victim is pending with the deadline one
\* window ahead.
C9_Witness ==
    \E t \in Threads :
        /\ pc[t] = "unlock"
        /\ sent[t] # NULL
        /\ lowmem_deathpending = sent[t]
        /\ lowmem_deathpending_timeout = (jiffies + HZ) % JiffyMod

\* C10. Return value: a call that killed returns the reclaimable estimate it
\* read minus the victim's footprint; a call that passed the guard and
\* killed nobody returns the estimate itself.
C10_ReturnValue ==
    \A t \in Threads : pc[t] = "done" =>
        /\ est[t] \in {0, Reclaimable(vmstat)}
        /\ sent[t] # NULL => ret[t] = est[t] - tasks[sent[t]].rss
        /\ (sent[t] = NULL /\ est[t] # 0) => ret[t] = est[t]

\* A call has returned the estimate less its victim's footprint.
C10_Witness ==
    \E t \in Threads :
        /\ pc[t] = "done"
        /\ sent[t] # NULL
        /\ ret[t] = Reclaimable(vmstat) - tasks[sent[t]].rss

\* ---- adequate memory (C11), under SpecThreshold
\* Thread t takes a step of lines 115-142 while no tier matches.
AdequateStep(t) ==
    /\ pc[t] \in {"guard", "thresh"}
    /\ MatchingTiers = {}
    /\ pc'[t] # pc[t]

\* What a call leaves alone when no tier matches.
AdequateFrame(t) ==
    /\ pc'[t] \in {"thresh", "done"}
    /\ scanned'[t] = 0
    /\ sent'[t] = NULL
    /\ UNCHANGED guardvars

\* C11 as claimed. Adequate memory is a no-op: when no tier matches, a call
\* scans nothing, selects and kills nobody, leaves the pending victim and
\* the deadline unchanged, and returns the reclaimable estimate.
C11_AdequateReturnsEstimate ==
    [][\A t \in Threads : AdequateStep(t) =>
        /\ AdequateFrame(t)
        /\ pc'[t] = "done" => ret'[t] = Reclaimable(vmstat)]_vars

\* C11 as amended. When no tier matches, a call scans nothing, selects and
\* kills nobody and leaves the pending victim and the deadline unchanged; it
\* returns from line 141 with the reclaimable estimate whatever nr_to_scan
\* is, unless its guard test found a victim pending with the deadline not
\* passed, and then it returns 0.
C11_AdequateAmended ==
    [][\A t \in Threads : AdequateStep(t) =>
        /\ AdequateFrame(t)
        /\ pc[t] = "guard" /\ PendingWithinWindow
              => pc'[t] = "done" /\ ret'[t] = 0
        /\ pc[t] = "guard" /\ ~PendingWithinWindow => pc'[t] = "thresh"
        /\ pc[t] = "thresh"
              => /\ pc'[t] = "done"
                 /\ ret'[t] = Reclaimable(vmstat)
                 /\ loc'[t].min_adj = OOM_ADJUST_MAX + 1]_vars

\* A call with nr_to_scan > 0 has returned the estimate from line 141
\* because no tier matched.
C11_Witness ==
    \E t \in Threads :
        /\ pc[t] = "done"
        /\ loc[t].nr_to_scan > 0
        /\ MatchingTiers = {}
        /\ est[t] # 0
        /\ ret[t] = Reclaimable(vmstat)
        /\ scanned[t] = 0

\* ---- eligibility (C12), under SpecSelect
\* Thread t runs one iteration of the loop, on list entry loc[t].p.
ScanIteration(t) == pc[t] = "scan" /\ scanned'[t] = scanned[t] + 1

\* Thread t leaves the loop, or returns, with nothing selected.
NoVictimStep(t) ==
    /\ pc'[t] # pc[t]
    /\ \/ pc[t] = "scan" /\ loc'[t].selected = NULL
       \/ pc[t] = "unlock" /\ loc[t].selected = NULL

\* C12. Victim eligibility: the selection changes only to the entry being
\* scanned, and only if that entry has, as it is scanned, an mm and a
\* signal struct, oom_adj >= min_adj and a footprint > 0; the process killed
\* is the selection. An iteration on such an entry always leaves a
\* selection, so a pass ends with none exactly when no scanned entry was
\* eligible, and then it kills nobody, leaves the pending victim and the
\* deadline unchanged and returns the reclaimable estimate.
C12_VictimEligibility ==
    /\ [][\A t \in Threads : ScanIteration(t) =>
            IF Eligible(t, loc[t].p)
            THEN loc'[t].selected \in {loc[t].selected, loc[t].p} \ {NULL}
            ELSE loc'[t].selected = loc[t].selected]_vars
    /\ [][\A t \in Threads : (sent'[t] # sent[t] /\ sent'[t] # NULL) =>
            pc[t] = "kill" /\ sent'[t] = loc[t].selected]_vars
    /\ [][\A t \in Threads : NoVictimStep(t) =>
            /\ pc'[t] \in {"unlock", "done"}
            /\ sent'[t] = NULL
            /\ UNCHANGED guardvars
            /\ pc'[t] = "done" => ret'[t] = Reclaimable(vmstat)]_vars

\* A pass that met an entry of priority below min_adj and an entry of no
\* footprint has killed a third, eligible one.
C12_Witness ==
    \E t \in Threads :
        /\ pc[t] = "unlock"
        /\ sent[t] # NULL
        /\ Eligible(t, sent[t])
        /\ \E i, j \in Procs :
              /\ tasks[i].oom_adj < loc[t].min_adj
              /\ tasks[j].rss = 0 /\ tasks[j].oom_adj >= loc[t].min_adj

\* ---- exit notification (C13), under Spec
\* C13. Exit notification matching: a notification whose task is not the
\* pending victim ends at its comparison and leaves the pending victim and
\* the deadline unchanged; one whose task is the pending victim goes on to
\* its store, which sets lowmem_deathpending to NULL and leaves the
\* deadline; and a guard test made while lowmem_deathpending is NULL never
\* blocks, whether or not the deadline has passed.
C13_NotifyMatching ==
    /\ [][(notify_pc = "check" /\ notify_pc' # "check") =>
            /\ UNCHANGED guardvars
            /\ notify_pc' =
                 IF notify_task = lowmem_deathpending THEN "clear" ELSE "idle"]_vars
    /\ [][(notify_pc = "clear" /\ notify_pc' # "clear") =>
            /\ lowmem_deathpending' = NULL
            /\ UNCHANGED lowmem_deathpending_timeout
            /\ notify_pc' = "idle"]_vars
    /\ [][\A t \in Threads :
            (LeavesGuard(t) /\ lowmem_deathpending = NULL)
                => pc'[t] = "thresh"]_vars

\* A victim was killed and has exited, its notification has cleared
\* lowmem_deathpending, and a call is past its guard although the deadline
\* has not passed.
C13_Witness ==
    \E t, u \in Threads :
        /\ t # u
        /\ pc[u] = "done" /\ sent[u] # NULL /\ ~tasks[sent[u]].mm
        /\ notify_pc = "idle"
        /\ lowmem_deathpending = NULL
        /\ NotPast(jiffies, lowmem_deathpending_timeout)
        /\ pc[t] = "thresh"

\* ---- configuration truncation (C14), under SpecThreshold
\* C14. Configuration truncation: for every pair of configured lengths the
\* lookup reads lowmem_minfree and lowmem_adj only at indices below both
\* lengths and below LOWMEM_ADJ_SLOTS, so min_adj is OOM_ADJUST_MAX + 1 or an
\* entry of lowmem_adj below both lengths; a mismatch of the lengths is no
\* error: the call returns the estimate, or the estimate less its victim.
C14_Truncation ==
    \A t \in Threads : ThresholdComputed(t) =>
        LET read == Consulted(1, vmstat.free, OtherFile(vmstat))
            hit == FindTier(1, vmstat.free, OtherFile(vmstat))
            below == { i \in 1..LOWMEM_ADJ_SLOTS :
                         i <= lowmem_adj_size /\ i <= lowmem_minfree_size }
        IN  /\ read \subseteq below
            /\ hit # 0 => hit \in read
            /\ loc[t].min_adj \in
                  {OOM_ADJUST_MAX + 1} \cup { lowmem_adj[i] : i \in below }
            /\ pc[t] = "done" =>
                  ret[t] = IF sent[t] = NULL THEN Reclaimable(vmstat)
                           ELSE Reclaimable(vmstat) - tasks[sent[t]].rss

\* With fewer minima configured than priorities, an entry beyond the
\* shorter length would have matched and the lookup has found no tier.
C14_Witness ==
    \E t \in Threads :
        /\ ThresholdComputed(t)
        /\ lowmem_minfree_size < lowmem_adj_size
        /\ loc[t].min_adj = OOM_ADJUST_MAX + 1
        /\ \E i \in (lowmem_minfree_size + 1)..lowmem_adj_size :
              TierMatches(i, vmstat.free, OtherFile(vmstat))

\* ---- monotonicity (C15), under SpecThreshold
\* C15. The lookup is monotone in free pages: for the tier table and the
\* file-page count of the call, if the lookup matched at index i for the
\* free-page count it read, then for every smaller free-page count it
\* matches too, at an index <= i.
C15_MonotoneInFree ==
    \A t \in Threads : ThresholdComputed(t) =>
        LET file == OtherFile(vmstat)
            i == FindTier(1, vmstat.free, file)
        IN  i # 0 =>
              /\ loc[t].min_adj = lowmem_adj[i]
              /\ \A f \in PageCounts :
                    f < vmstat.free => FindTier(1, f, file) \in 1..i

\* A call matched at the third tier, and a smaller free-page count matches
\* at the first.
C15_Witness ==
    \E t \in Threads :
        /\ ThresholdComputed(t)
        /\ FindTier(1, vmstat.free, OtherFile(vmstat)) = 3
        /\ \E f \in PageCounts :
              f < vmstat.free /\ FindTier(1, f, OtherFile(vmstat)) = 1

\* ---- best-delta seeding (C16), under SpecSelect
\* C16. Best-delta seeding: with old_method = 0, the iteration that accepts
\* the first candidate of a pass sets lowmem_delta to the distance of that
\* candidate's footprint from nr_to_scan * multiplier.
C16_DeltaSeeded ==
    [][\A t \in Threads :
        ( /\ ScanIteration(t)
          /\ lowmem_oldmethod = 0
          /\ loc[t].selected = NULL
          /\ loc'[t].selected # NULL )
        => loc'[t].lowmem_delta = Distance(t, loc'[t].selected)]_vars

\* ---- compare-and-clear (C17), under Spec
\* C17. Atomic compare-and-clear: under every interleaving with the
\* callers of lowmem_shrink, the store of task_notify_func clears
\* lowmem_deathpending only if the pending victim is, at the moment of the
\* store, the task the notification is for.
C17_ClearsOnlyOwnVictim ==
    [][(notify_pc = "clear" /\ notify_pc' # "clear")
          => lowmem_deathpending = notify_task]_vars

\* ---- mutual exclusion (C18), under SpecFair
\* Thread t is between spin_lock and spin_unlock.
InSection(t) == pc[t] \in {"scan", "kill", "unlock"}

\* C18. Mutual exclusion of passes: at most one call at a time is between
\* spin_lock and spin_unlock, and it is the holder of lowmem_lock; a call
\* that is not there does not hold the lock, so every call has released it
\* when it returns; a call that holds the lock returns, and a call waiting
\* for the lock gets it.
C18_MutualExclusion ==
    /\ [](\A t, u \in Threads : (InSection(t) /\ InSection(u)) => t = u)
    /\ [](\A t \in Threads : InSection(t) <=> lowmem_lock = t)
    /\ \A t \in Threads : (lowmem_lock = t) ~> (pc[t] = "done")
    /\ \A t \in Threads : (pc[t] = "lock") ~> (pc[t] = "scan")

\* One call holds the lock and scans while the other waits for it.
C18_Witness ==
    \E t, u \in Threads :
        /\ pc[t] = "scan" /\ lowmem_lock = t
        /\ pc[u] = "lock"

\* ---- expiry of the guard (C19), under Spec
\* C19. The guard does not block forever: once the deadline of a pending
\* victim has passed, the guard lets every call through until a kill arms
\* it again, whether or not the victim's exit is ever notified. Stated per
\* step: no step that leaves the pending victim and the deadline as they are
\* turns a guard that lets calls through into one that blocks them.
C19_GuardStaysOpen ==
    [][( /\ lowmem_deathpending # NULL
         /\ ~TimeBeforeEq(jiffies, lowmem_deathpending_timeout)
         /\ UNCHANGED guardvars )
        => ~TimeBeforeEq(jiffies', lowmem_deathpending_timeout')]_vars

\* ---- the histogram buffer (C20), under Spec
\* C20. No diagnostic-buffer leak: a call that has returned, by whichever
\* return statement, has freed the histogram buffer it allocated at entry.
C20_NoBufferLeak ==
    \A t \in Threads : pc[t] = "done" => ~loc[t].ooms_seen

====
